---- MODULE Spec2Model ----
(***************************************************************************)
(* Forecasting engine of flu-forecast-hub: FluForecaster (prepare_data,    *)
(* fit_arima, fit_moving_average, predict, evaluate, get_model_summary)    *)
(* and run_forecast_pipeline, modelled from src/backend/app/forecaster.py. *)
(*                                                                         *)
(* Numbers are fixed-point integers (one unit = 0.01 ILI percent, the      *)
(* resolution of the sample data); float nan is the value NaN.             *)
(* The statsmodels ARIMA estimator is outside the repository: construction *)
(* and estimation may raise or succeed, and a fitted result forecasts      *)
(* from the data it holds and its estimated parameter.                     *)
(***************************************************************************)
EXTENDS Integers, Sequences, FiniteSets, TLC

\* ---------------------------------------------------------------- bounds
MaxLen == 22
MaxTestWeeks == 2
MaxForecastWeeks == 2
MaxPattern == 1
MaxWindow == 2
MaxSteps == 2
MaxEvalLen == 1
MaxMetricLen == 2
MaxRawRows == 2

\* ------------------------------------------------------ program constants
MinSplitTrain == 10
MinArimaPoints == 20
FirstYear == 2020
WeeksPerYear == 52
SampleYearEnd == 2026
FirstIliYear == 1997
MaxIliPercentage == 100
MaxWeek == 53

\* ------------------------------------------------------- python basics
NaN == -1000000

Min2(a, b) == IF a < b THEN a ELSE b

Max2(a, b) == IF a > b THEN a ELSE b

Abs(x) == IF x < 0 THEN -x ELSE x

\* s[b:e] of a Python sequence, negative indices counted from the end,
\* out-of-range indices clipped; positions are 0-based as in Python.
PyIndex(i, n) == IF i < 0 THEN Max2(i + n, 0) ELSE Min2(i, n)

PySlice(s, b, e) ==
    LET n  == Len(s)
        lo == PyIndex(b, n)
        hi == PyIndex(e, n)
    IN  IF hi <= lo THEN << >> ELSE SubSeq(s, lo + 1, hi)

\* s[:e]
PySliceTo(s, e) == PySlice(s, 0, e)

\* s[b:]
PySliceFrom(s, b) == PySlice(s, b, Len(s))

RECURSIVE SumSeq(_)
SumSeq(s) == IF s = << >> THEN 0 ELSE Head(s) + SumSeq(Tail(s))

HasNaN(s) == \E i \in 1..Len(s) : s[i] = NaN

\* round(n/d) to the nearest integer, ties to even (Python round), n >= 0, d > 0
RoundHalfEven(n, d) ==
    LET q == n \div d
        r == n % d
    IN  IF 2 * r < d THEN q
        ELSE IF 2 * r > d THEN q + 1
        ELSE IF q % 2 = 0 THEN q ELSE q + 1

\* np.mean of a list of floats: nan for an empty list or a nan element
Mean(s) ==
    IF s = << >> \/ HasNaN(s) THEN NaN
    ELSE LET t == SumSeq(s)
         IN  IF t >= 0 THEN RoundHalfEven(t, Len(s))
             ELSE -RoundHalfEven(-t, Len(s))

\* ------------------------------------------------------------ exceptions
NoError == [type |-> "None", msg |-> ""]

NotEnoughDataError == [type |-> "ValueError", msg |-> "Not enough data for train/test split"]

ColumnNotFoundError == [type |-> "ValueError", msg |-> "Column not found in DataFrame"]

ArimaTooShortError == [type |-> "ValueError", msg |-> "Need at least 20 data points for ARIMA"]

ArimaFittingError == [type |-> "RuntimeError", msg |-> "ARIMA fitting failed"]

NotFittedError == [type |-> "RuntimeError", msg |-> "Model not fitted. Call fit_arima() or fit_moving_average() first"]

StepsError == [type |-> "ValueError", msg |-> "Steps must be at least 1"]

UnknownModelError == [type |-> "RuntimeError", msg |-> "Unknown model type"]

ModelAttributeError == [type |-> "AttributeError", msg |-> "'ARIMA' object has no attribute 'forecast'"]

ModelTypeError == [type |-> "TypeError", msg |-> "'ARIMA' object is not subscriptable"]

EvaluateInputError == [type |-> "ValueError", msg |-> "sklearn rejects empty or nan input"]

\* ------------------------------------------------------------ data frames
\* A frame is a sequence of rows [year, week, ili_percentage].
KeyLE(a, b) == a.year < b.year \/ (a.year = b.year /\ a.week <= b.week)

InsertRow(r, s) ==
    SelectSeq(s, LAMBDA x : KeyLE(x, r)) \o << r >> \o SelectSeq(s, LAMBDA x : ~KeyLE(x, r))

RECURSIVE SortValues(_)
\* df.sort_values(['year', 'week']).reset_index(drop=True): stable, ascending
SortValues(df) ==
    IF df = << >> THEN << >>
    ELSE InsertRow(df[Len(df)], SortValues(SubSeq(df, 1, Len(df) - 1)))

\* df[target_col].values
ColumnValues(df) == [i \in 1..Len(df) |-> df[i].ili_percentage]

IsSortedFrame(df) == \A i \in 1..(Len(df) - 1) : KeyLE(df[i], df[i + 1])

\* ------------------------------------------------------- optional values
None == [none |-> TRUE]

Some(x) == [none |-> FALSE, v |-> x]

\* ------------------------------------------------- FluForecaster: state
\* self.model is None, an unfitted statsmodels ARIMA (line 96), a fitted
\* ARIMAResults (line 97) or the moving-average dict (line 121).
NoModel == [kind |-> "None"]

ArimaModel(endog) == [kind |-> "ARIMA", endog |-> endog]

ArimaResults(endog, drift) == [kind |-> "ARIMAResults", endog |-> endog, drift |-> drift]

MovingAverageModel(window, last_values) ==
    [kind |-> "dict", window |-> window, last_values |-> last_values]

\* FluForecaster.__init__
NewForecaster ==
    [model |-> NoModel, model_type |-> "None", is_fitted |-> FALSE, train_data |-> None]

\* --------------------------------------------------------- prepare_data
KeyColumnError == [type |-> "KeyError", msg |-> "year/week"]

prepare_data_failed(exc) == [exc |-> exc, train |-> << >>, test |-> << >>]

\* variant: the minimum is one observation too low
NotEnoughData_offByOne(n, test_size) == n < test_size + MinSplitTrain - 1

NotEnoughData(n, test_size) == n < test_size + MinSplitTrain

\* series[:-test_size]
SplitTrain(series, test_size) == PySliceTo(series, -test_size)

\* variant: the sign of the slice start is dropped (series[test_size:])
SplitTest_unsigned(series, test_size) == PySliceFrom(series, test_size)

\* series[-test_size:]
SplitTest(series, test_size) == PySliceFrom(series, -test_size)

\* df is the rows of the frame, columns the names of its columns
prepare_data(df, columns, target_col, test_size) ==
    IF target_col \notin columns
    THEN prepare_data_failed(ColumnNotFoundError)
    ELSE IF NotEnoughData(Len(df), test_size)
    THEN prepare_data_failed(NotEnoughDataError)
    ELSE IF ~({"year", "week"} \subseteq columns)
    THEN prepare_data_failed(KeyColumnError)
    ELSE LET series == ColumnValues(SortValues(df))
         IN  [exc   |-> NoError,
              train |-> SplitTrain(series, test_size),
              test  |-> SplitTest(series, test_size)]

\* ------------------------------------------------------------ fit_arima
\* What the statsmodels calls of lines 96-97 can do: the constructor raises,
\* the estimation raises, or estimation returns a result with some parameter.
Drifts == {-2, 1}

FitOutcomes ==
    {[kind |-> "ctor_raises", drift |-> 0], [kind |-> "fit_raises", drift |-> 0]}
        \cup {[kind |-> "ok", drift |-> d] : d \in Drifts}

\* variant: the split's minimum of training points is used for ARIMA too
TooShortForArima_splitMinimum(train_data) == Len(train_data) < MinSplitTrain

\* line 90
TooShortForArima(train_data) == Len(train_data) < MinArimaPoints

\* variant: train_data is stored before the length is checked
fit_arima_too_short_assigns(self, train_data) ==
    [self |-> [self EXCEPT !.train_data = Some(train_data)], exc |-> ArimaTooShortError]

\* lines 90-91: raised before any attribute is assigned
fit_arima_too_short(self, train_data) == [self |-> self, exc |-> ArimaTooShortError]

fit_arima(self, train_data, outcome) ==
    IF TooShortForArima(train_data)
    THEN fit_arima_too_short(self, train_data)
    ELSE LET s1 == [self EXCEPT !.train_data = Some(train_data)]
         IN  IF outcome.kind = "ctor_raises"
             THEN [self |-> s1, exc |-> ArimaFittingError]
             ELSE IF outcome.kind = "fit_raises"
             THEN [self |-> [s1 EXCEPT !.model = ArimaModel(train_data)],
                   exc  |-> ArimaFittingError]
             ELSE [self |-> [s1 EXCEPT !.model = ArimaResults(train_data, outcome.drift),
                                       !.model_type = "ARIMA",
                                       !.is_fitted = TRUE],
                   exc  |-> NoError]

\* --------------------------------------------------- fit_moving_average
\* pandas Series.tail(n): last n rows; none for n = 0; all but the first |n| for n < 0
PdTail(s, n) == IF n = 0 THEN << >> ELSE PySliceFrom(s, -n)

\* variant: a series shorter than the window is refused
fit_moving_average_strict(self, train_data, window) ==
    IF Len(train_data) < window
    THEN [self |-> self, exc |-> NotEnoughDataError]
    ELSE [self |-> [model      |-> MovingAverageModel(window, PdTail(train_data, window)),
                    model_type |-> "MovingAverage",
                    is_fitted  |-> TRUE,
                    train_data |-> Some(train_data)],
          exc  |-> NoError]

fit_moving_average(self, train_data, window) ==
    [self |-> [model      |-> MovingAverageModel(window, PdTail(train_data, window)),
               model_type |-> "MovingAverage",
               is_fitted  |-> TRUE,
               train_data |-> Some(train_data)],
     exc  |-> NoError]

\* -------------------------------------------------------------- predict
\* self.model.forecast(steps) of a fitted result: steps values extending its data
ArimaForecast(model, steps) ==
    LET last == IF model.endog = << >> THEN 0 ELSE model.endog[Len(model.endog)]
    IN  [i \in 1..steps |-> last + model.drift * i]

\* variant: the raw forecast is returned as it is
ClampAtZero_off(s) == s

\* np.maximum(forecast, 0): nan stays nan
ClampAtZero(s) == [i \in 1..Len(s) |-> IF s[i] = NaN THEN NaN ELSE Max2(s[i], 0)]

\* variant: the window never slides over the predicted values
MovingAverageForecast_noSlide(values, window, steps) ==
    [i \in 1..steps |-> Mean(PySliceFrom(values, -window))]

RECURSIVE MovingAverageForecast(_, _, _)
MovingAverageForecast(values, window, steps) ==
    IF steps <= 0 THEN << >>
    ELSE LET pred == Mean(PySliceFrom(values, -window))
         IN  << pred >> \o MovingAverageForecast(Append(values, pred), window, steps - 1)

\* variant: steps = 0 is let through
InvalidSteps_negative(steps) == steps < 0

\* line 140
InvalidSteps(steps) == steps < 1

\* variant: the steps check is made before the fitted check
predict_checks_stepsFirst(self, steps) ==
    IF steps < 1 THEN StepsError
    ELSE IF ~self.is_fitted THEN NotFittedError
    ELSE NoError

\* lines 137-141: the two checks in the order the code makes them
predict_checks(self, steps) ==
    IF ~self.is_fitted THEN NotFittedError
    ELSE IF InvalidSteps(steps) THEN StepsError
    ELSE NoError

predict(self, steps) ==
    IF predict_checks(self, steps) # NoError
    THEN [exc |-> predict_checks(self, steps), value |-> None]
    ELSE IF self.model_type = "ARIMA"
    THEN IF self.model.kind = "ARIMAResults"
         THEN [exc |-> NoError, value |-> Some(ClampAtZero(ArimaForecast(self.model, steps)))]
         ELSE [exc |-> ModelAttributeError, value |-> None]
    ELSE IF self.model_type = "MovingAverage"
    THEN IF self.model.kind = "dict"
         THEN [exc   |-> NoError,
               value |-> Some(MovingAverageForecast(self.model.last_values,
                                                    self.model.window, steps))]
         ELSE [exc |-> ModelTypeError, value |-> None]
    ELSE [exc |-> UnknownModelError, value |-> None]

\* variant: the moving-average loop appends to the stored last_values
SelfAfterPredict_appendsInPlace(self, steps) ==
    IF /\ predict_checks(self, steps) = NoError
       /\ self.model_type = "MovingAverage"
       /\ self.model.kind = "dict"
    THEN [self EXCEPT !.model.last_values =
             @ \o MovingAverageForecast(self.model.last_values, self.model.window, steps)]
    ELSE self

\* the forecaster after predict: line 152 copies last_values into a new list,
\* lines 154-157 append to that copy; no attribute of self is assigned
SelfAfterPredict(self, steps) == self

\* ------------------------------------------------------------- evaluate
RECURSIVE SqrtUpper(_, _, _)
SqrtUpper(n, d, hi) == IF hi * hi * d > n THEN hi ELSE SqrtUpper(n, d, 2 * hi)

RECURSIVE SqrtBisect(_, _, _, _)
\* largest r in lo..hi-1 with r*r*d <= n
SqrtBisect(n, d, lo, hi) ==
    IF hi - lo <= 1 THEN lo
    ELSE LET mid == (lo + hi) \div 2
         IN  IF mid * mid * d <= n THEN SqrtBisect(n, d, mid, hi)
             ELSE SqrtBisect(n, d, lo, mid)

\* sqrt(n/d) rounded to the nearest integer, ties to even, n >= 0, d > 0
RoundSqrt(n, d) ==
    LET r    == SqrtBisect(n, d, 0, SqrtUpper(n, d, 1))
        gap4 == 4 * (n - (r * r + r) * d)
    IN  IF gap4 > d THEN r + 1
        ELSE IF gap4 < d THEN r
        ELSE IF r % 2 = 0 THEN r ELSE r + 1

\* variant: the predictions are not subtracted
MeanAbsoluteError_noDiff(actual, pred) ==
    RoundHalfEven(100 * SumSeq([i \in 1..Len(actual) |-> Abs(pred[i])]), Len(actual))

\* MAE, rounded to 4 decimals (unit 0.0001)
MeanAbsoluteError(actual, pred) ==
    RoundHalfEven(100 * SumSeq([i \in 1..Len(actual) |-> Abs(actual[i] - pred[i])]),
                  Len(actual))

\* RMSE, rounded to 4 decimals (unit 0.0001)
RootMeanSquaredError(actual, pred) ==
    RoundSqrt(10000 * SumSeq([i \in 1..Len(actual) |->
                                 (actual[i] - pred[i]) * (actual[i] - pred[i])]),
              Len(actual))

\* positions with actual != 0
MapeMask(actual) == SelectSeq([i \in 1..Len(actual) |-> i], LAMBDA i : actual[i] # 0)

\* variant: the masked sum is divided by the number of all positions
MeanAbsolutePercentageError_countAll(actual, pred) ==
    LET mask == MapeMask(actual)
    IN  IF Len(mask) > 0
        THEN Some(RoundHalfEven(
                 SumSeq([j \in 1..Len(mask) |->
                     RoundHalfEven(1000000 * Abs(actual[mask[j]] - pred[mask[j]]),
                                   Abs(actual[mask[j]]))]),
                 100 * Len(actual)))
        ELSE None

\* MAPE in percent, rounded to 2 decimals (unit 0.01); None when the mask is empty
MeanAbsolutePercentageError(actual, pred) ==
    LET mask == MapeMask(actual)
    IN  IF Len(mask) > 0
        THEN Some(RoundHalfEven(
                 SumSeq([j \in 1..Len(mask) |->
                     RoundHalfEven(1000000 * Abs(actual[mask[j]] - pred[mask[j]]),
                                   Abs(actual[mask[j]]))]),
                 100 * Len(mask)))
        ELSE None

evaluate(test_data, predictions) ==
    LET min_len == Min2(Len(test_data), Len(predictions))
        actual  == IF Len(test_data) # Len(predictions)
                   THEN PySliceTo(test_data, min_len) ELSE test_data
        pred    == IF Len(test_data) # Len(predictions)
                   THEN PySliceTo(predictions, min_len) ELSE predictions
    IN  IF actual = << >> \/ HasNaN(actual) \/ HasNaN(pred)
        THEN [exc |-> EvaluateInputError, value |-> None]
        ELSE [exc   |-> NoError,
              value |-> Some([MAE  |-> MeanAbsoluteError(actual, pred),
                              RMSE |-> RootMeanSquaredError(actual, pred),
                              MAPE |-> MeanAbsolutePercentageError(actual, pred)])]

\* ---------------------------------------------------- get_model_summary
get_model_summary(self) ==
    IF ~self.is_fitted THEN "No model fitted yet"
    ELSE IF self.model_type = "ARIMA" THEN "ARIMA summary"
    ELSE "Moving Average"

\* ------------------------------------------------------------ inputs
\* Weekly rows in calendar order starting late in FirstYear, so that the
\* year changes inside the frame; values follow a small repeating pattern.
BaseRow(i, p) ==
    [year           |-> FirstYear + (i + 43) \div WeeksPerYear,
     week           |-> ((i + 43) % WeeksPerYear) + 1,
     ili_percentage |-> (i * p) % 4]

SortedFrame(n, p) == [i \in 1..n |-> BaseRow(i, p)]

SwapRows(f, a, b) ==
    [i \in 1..Len(f) |-> IF i = a THEN f[b] ELSE IF i = b THEN f[a] ELSE f[i]]

Shapes == {"sorted", "swap_ends", "swap_tail"}

Frame(n, p, shape) ==
    IF n < 2 \/ shape = "sorted" THEN SortedFrame(n, p)
    ELSE IF shape = "swap_ends" THEN SwapRows(SortedFrame(n, p), 1, n)
    ELSE SwapRows(SortedFrame(n, p), n - 1, n)

AllColumns == {"year", "week", "region", "ili_percentage"}

ColumnSets == {AllColumns, AllColumns \ {"ili_percentage"}, AllColumns \ {"week"}}

Series(n, p) == ColumnValues(SortedFrame(n, p))

\* lengths around the window and around the ARIMA minimum
TrainingLengths ==
    {0, MaxWindow - 1, MaxWindow, MaxWindow + 1,
     MinArimaPoints - 1, MinArimaPoints, MaxLen}

\* an all-zero series and a varying one of each length
\* a series of values below zero (fit_moving_average takes any numeric series)
NegativeSeries == << -4, -2 >>

TrainingSeries ==
    {Series(n, p) : n \in TrainingLengths, p \in {0, MaxPattern}} \cup {NegativeSeries}

EvalValues == {0, 2}

EvalSeqs == UNION {[1..n -> EvalValues] : n \in 0..MaxEvalLen}

\* ------------------------------------------------------------ state
VARIABLES
    df,               \* run_forecast_pipeline: rows of the caller's frame
    df_columns,       \* names of the columns of the caller's frame
    forecast_weeks,   \* argument forecast_weeks
    test_weeks,       \* argument test_weeks
    pc,               \* last completed step of the run
    forecaster,       \* the FluForecaster (model, model_type, is_fitted, train_data)
    train,            \* local train
    test,             \* local test
    test_predictions, \* local test_predictions
    metrics,          \* local metrics
    future_forecast,  \* local future_forecast
    result,           \* the dict returned to the caller, None while there is none
    error,            \* the exception raised to the caller, NoError while there is none
    scored_model,     \* history: forecaster.model when test_predictions were made
    call,             \* last method call on the forecaster, with its outcome
    runs,             \* interleaved calls: call id -> arguments, position and locals
    heap              \* interleaved calls: object id -> FluForecaster object

vars == << df, df_columns, forecast_weeks, test_weeks, pc, forecaster, train, test,
           test_predictions, metrics, future_forecast, result, error, scored_model, call,
           runs, heap >>

concurrentVars == << runs, heap >>

pipelineLocals == << train, test, test_predictions, metrics, future_forecast, scored_model >>

pipelineArgs == << df, df_columns, forecast_weeks, test_weeks >>

NoCall == [op |-> "none", arg |-> None, exc |-> NoError, value |-> None]

\* --------------------------------------------- run_forecast_pipeline
\* variant: the refit is moved before the evaluation
StepAfter_refitFirst(p) ==
    CASE p = "Idle"           -> "Split"
      [] p = "Split"          -> "TrainFit"
      [] p = "TrainFit"       -> "TestForecast"
      [] p = "TestForecast"   -> "RefitFull"
      [] p = "RefitFull"      -> "FutureForecast"
      [] p = "FutureForecast" -> "Done"
      [] OTHER                -> p

\* Order of the statements of run_forecast_pipeline (lines 235-256)
StepAfter(p) ==
    CASE p = "Idle"           -> "Split"
      [] p = "Split"          -> "TrainFit"
      [] p = "TrainFit"       -> "TestForecast"
      [] p = "TestForecast"   -> "Scored"
      [] p = "Scored"         -> "RefitFull"
      [] p = "RefitFull"      -> "FutureForecast"
      [] p = "FutureForecast" -> "Done"
      [] OTHER                -> p

\* variant: the exception is swallowed and a report of defaults is returned
Propagate_default(exc) ==
    [pc     |-> "Failed",
     error  |-> NoError,
     result |-> Some([metrics |-> None, test_actual |-> << >>, test_predicted |-> << >>,
                      future_forecast |-> << >>, model_type |-> "None"])]

\* An exception of a callee is not caught: the run ends, nothing is returned
Propagate(exc) == [pc |-> "Failed", error |-> exc, result |-> None]

\* variant: the first fit already sees the held-out weeks
TrainFitInput_whole(train_, frame) == ColumnValues(frame)

\* line 238: the series given to the first fit
TrainFitInput(train_, frame) == train_

\* line 247: the series given to the second fit
RefitInput(train_, test_, frame) == ColumnValues(frame)

\* lines 250-256
Report(metrics_, test_, test_predictions_, future_forecast_, self) ==
    [metrics         |-> metrics_,
     test_actual     |-> test_,
     test_predicted  |-> test_predictions_,
     future_forecast |-> future_forecast_,
     model_type      |-> self.model_type]

Raise(exc) ==
    /\ pc' = Propagate(exc).pc
    /\ error' = Propagate(exc).error
    /\ result' = Propagate(exc).result

Advance ==
    /\ pc' = StepAfter(pc)
    /\ UNCHANGED << error, result >>

\* variant: line 61 sorts the caller's frame in place
CallerFrame_sortedInPlace(frame, columns, target_col, test_size) ==
    IF prepare_data(frame, columns, target_col, test_size).exc # NoError
    THEN frame
    ELSE SortValues(frame)

\* the caller's frame after prepare_data: line 61 binds the sorted copy to the
\* local name df, lines 64-68 only read it
CallerFrame(frame, columns, target_col, test_size) == frame

\* lines 232-235
Split ==
    /\ pc = "Idle"
    /\ UNCHANGED concurrentVars
    /\ LET r == prepare_data(df, df_columns, "ili_percentage", test_weeks)
       IN  IF r.exc # NoError
           THEN /\ Raise(r.exc)
                /\ UNCHANGED << train, test >>
           ELSE /\ Advance
                /\ train' = Some(r.train)
                /\ test' = Some(r.test)
    /\ df' = CallerFrame(df, df_columns, "ili_percentage", test_weeks)
    /\ UNCHANGED << df_columns, forecast_weeks, test_weeks, forecaster,
                    test_predictions, metrics, future_forecast, scored_model, call >>

\* line 238
TrainFit ==
    /\ pc = "Split"
    /\ UNCHANGED concurrentVars
    /\ \E outcome \in FitOutcomes :
         LET r == fit_arima(forecaster, TrainFitInput(train.v, df), outcome)
         IN  /\ forecaster' = r.self
             /\ IF r.exc # NoError THEN Raise(r.exc) ELSE Advance
    /\ UNCHANGED << pipelineArgs, pipelineLocals, call >>

\* line 241
TestForecast ==
    /\ pc = "TrainFit"
    /\ UNCHANGED concurrentVars
    /\ LET r == predict(forecaster, Len(test.v))
       IN  IF r.exc # NoError
           THEN /\ Raise(r.exc)
                /\ UNCHANGED << test_predictions, scored_model >>
           ELSE /\ Advance
                /\ test_predictions' = r.value
                /\ scored_model' = forecaster.model
    /\ forecaster' = SelfAfterPredict(forecaster, Len(test.v))
    /\ UNCHANGED << pipelineArgs, train, test, metrics, future_forecast, call >>

\* line 244
Scored ==
    /\ pc = "TestForecast"
    /\ UNCHANGED concurrentVars
    /\ LET r == evaluate(test.v, test_predictions.v)
       IN  IF r.exc # NoError
           THEN /\ Raise(r.exc)
                /\ UNCHANGED metrics
           ELSE /\ Advance
                /\ metrics' = r.value
    /\ UNCHANGED << pipelineArgs, forecaster, train, test, test_predictions,
                    future_forecast, scored_model, call >>

\* line 247
RefitFull ==
    /\ pc = "Scored"
    /\ UNCHANGED concurrentVars
    /\ \E outcome \in FitOutcomes :
         LET r == fit_arima(forecaster, RefitInput(train.v, test.v, df), outcome)
         IN  /\ forecaster' = r.self
             /\ IF r.exc # NoError THEN Raise(r.exc) ELSE Advance
    /\ UNCHANGED << pipelineArgs, pipelineLocals, call >>

\* line 248
FutureForecast ==
    /\ pc = "RefitFull"
    /\ UNCHANGED concurrentVars
    /\ LET r == predict(forecaster, forecast_weeks)
       IN  IF r.exc # NoError
           THEN /\ Raise(r.exc)
                /\ UNCHANGED future_forecast
           ELSE /\ Advance
                /\ future_forecast' = r.value
    /\ forecaster' = SelfAfterPredict(forecaster, forecast_weeks)
    /\ UNCHANGED << pipelineArgs, train, test, test_predictions, metrics,
                    scored_model, call >>

\* lines 250-256
Done ==
    /\ pc = "FutureForecast"
    /\ UNCHANGED concurrentVars
    /\ pc' = StepAfter(pc)
    /\ result' = Some(Report(metrics.v, test.v, test_predictions.v, future_forecast.v,
                             forecaster))
    /\ UNCHANGED << pipelineArgs, forecaster, pipelineLocals, error, call >>

Init ==
    /\ \E n \in 0..MaxLen, p \in 0..MaxPattern, shape \in Shapes : df = Frame(n, p, shape)
    /\ df_columns \in ColumnSets
    /\ forecast_weeks \in -1..MaxForecastWeeks
    /\ test_weeks \in (-MaxLen)..MaxTestWeeks
    /\ pc = "Idle"
    /\ forecaster = NewForecaster
    /\ train = None
    /\ test = None
    /\ test_predictions = None
    /\ metrics = None
    /\ future_forecast = None
    /\ result = None
    /\ error = NoError
    /\ scored_model = NoModel
    /\ call = NoCall
    /\ runs = << >>
    /\ heap = << >>

Next ==
    \/ Split
    \/ TrainFit
    \/ TestForecast
    \/ Scored
    \/ RefitFull
    \/ FutureForecast
    \/ Done

Spec == Init /\ [][Next]_vars

\* ------------------------------------- method calls on one FluForecaster
pipelineVars == << pipelineArgs, pc, pipelineLocals, result, error, concurrentVars >>

CallFitArima ==
    /\ \E td \in TrainingSeries, outcome \in FitOutcomes :
         LET r == fit_arima(forecaster, td, outcome)
         IN  /\ forecaster' = r.self
             /\ call' = [op |-> "fit_arima", arg |-> Some(td), exc |-> r.exc, value |-> None]
    /\ UNCHANGED pipelineVars

CallFitMovingAverage ==
    /\ \E td \in TrainingSeries, window \in 1..MaxWindow :
         LET r == fit_moving_average(forecaster, td, window)
         IN  /\ forecaster' = r.self
             /\ call' = [op    |-> "fit_moving_average",
                         arg   |-> Some([train_data |-> td, window |-> window]),
                         exc   |-> r.exc,
                         value |-> None]
    /\ UNCHANGED pipelineVars

CallPredict ==
    /\ \E steps \in -1..MaxSteps :
         LET r == predict(forecaster, steps)
         IN  /\ call' = [op |-> "predict", arg |-> Some(steps), exc |-> r.exc, value |-> r.value]
             /\ forecaster' = SelfAfterPredict(forecaster, steps)
    /\ UNCHANGED pipelineVars

CallEvaluate ==
    /\ \E a \in EvalSeqs, b \in EvalSeqs :
         LET r == evaluate(a, b)
         IN  call' = [op    |-> "evaluate",
                      arg   |-> Some([test_data |-> a, predictions |-> b]),
                      exc   |-> r.exc,
                      value |-> r.value]
    /\ UNCHANGED << forecaster, pipelineVars >>

CallGetModelSummary ==
    /\ call' = [op    |-> "get_model_summary",
                arg   |-> None,
                exc   |-> NoError,
                value |-> Some(get_model_summary(forecaster))]
    /\ UNCHANGED << forecaster, pipelineVars >>

InitForecaster ==
    /\ df = << >>
    /\ df_columns = AllColumns
    /\ forecast_weeks = 0
    /\ test_weeks = 0
    /\ pc = "Idle"
    /\ forecaster = NewForecaster
    /\ train = None
    /\ test = None
    /\ test_predictions = None
    /\ metrics = None
    /\ future_forecast = None
    /\ result = None
    /\ error = NoError
    /\ scored_model = NoModel
    /\ call = NoCall
    /\ runs = << >>
    /\ heap = << >>

NextForecaster ==
    \/ CallFitArima
    \/ CallFitMovingAverage
    \/ CallPredict
    \/ CallEvaluate
    \/ CallGetModelSummary

SpecForecaster == InitForecaster /\ [][NextForecaster]_vars

\* --------------------------------------------- evaluate as a function
MetricValues == {0, 1, 3}

MetricSeqs == UNION {[1..n -> MetricValues] : n \in 0..MaxMetricLen}

InitEvaluate ==
    /\ df = << >>
    /\ df_columns = AllColumns
    /\ forecast_weeks = 0
    /\ test_weeks = 0
    /\ pc = "Idle"
    /\ forecaster = NewForecaster
    /\ train = None
    /\ test = None
    /\ test_predictions = None
    /\ metrics = None
    /\ future_forecast = None
    /\ result = None
    /\ error = NoError
    /\ scored_model = NoModel
    /\ runs = << >>
    /\ heap = << >>
    /\ \E a \in MetricSeqs, b \in MetricSeqs :
         call = [op    |-> "pending",
                 arg   |-> Some([test_data |-> a, predictions |-> b]),
                 exc   |-> NoError,
                 value |-> None]

\* forecaster.evaluate(test_data, predictions) on the pending arguments
ApplyEvaluate ==
    /\ call.op = "pending"
    /\ LET r == evaluate(call.arg.v.test_data, call.arg.v.predictions)
       IN  call' = [call EXCEPT !.op = "evaluate", !.exc = r.exc, !.value = r.value]
    /\ UNCHANGED << forecaster, pipelineVars >>

NextEvaluate == ApplyEvaluate

SpecEvaluate == InitEvaluate /\ [][NextEvaluate]_vars

\* ------------------------- interleaved run_forecast_pipeline calls
RunIds == {1, 2}

\* variant: every call works on one module-level forecaster
ForecasterOf_shared(r) == 1

\* line 232: the forecaster is a local of the call, a new object per call
ForecasterOf(r) == r

\* the locals of a call before its first statement
InitialRun(frame, columns, fw, tw) ==
    [df               |-> frame,
     df_columns       |-> columns,
     forecast_weeks   |-> fw,
     test_weeks       |-> tw,
     pc               |-> "Idle",
     train            |-> None,
     test             |-> None,
     test_predictions |-> None,
     metrics          |-> None,
     future_forecast  |-> None,
     result           |-> None,
     error            |-> NoError,
     fits             |-> << >>]

RunRaise(l, self, exc) ==
    [local |-> [l EXCEPT !.pc = Propagate(exc).pc,
                         !.error = Propagate(exc).error,
                         !.result = Propagate(exc).result],
     self  |-> self]

\* the steps at which statsmodels is called (lines 238 and 247)
IsFitStep(p) == p \in {"Split", "Scored"}

\* the outcome argument of a statement that does not call statsmodels
NoOutcome == [kind |-> "none", drift |-> 0]

\* one statement of run_forecast_pipeline (lines 232-256) on the locals l of
\* a call and the object self its name forecaster refers to
RunStatement(l, self, outcome) ==
    CASE l.pc = "Idle" ->
           LET r == prepare_data(l.df, l.df_columns, "ili_percentage", l.test_weeks)
           IN  IF r.exc # NoError
               THEN RunRaise(l, NewForecaster, r.exc)
               ELSE [local |-> [l EXCEPT !.pc = StepAfter(l.pc),
                                         !.train = Some(r.train),
                                         !.test = Some(r.test),
                                         !.df = CallerFrame(l.df, l.df_columns,
                                                            "ili_percentage", l.test_weeks)],
                     self  |-> NewForecaster]
      [] l.pc = "Split" ->
           LET r == fit_arima(self, TrainFitInput(l.train.v, l.df), outcome)
               m == [l EXCEPT !.fits = Append(@, outcome)]
           IN  IF r.exc # NoError
               THEN RunRaise(m, r.self, r.exc)
               ELSE [local |-> [m EXCEPT !.pc = StepAfter(l.pc)], self |-> r.self]
      [] l.pc = "TrainFit" ->
           LET r == predict(self, Len(l.test.v))
               after == SelfAfterPredict(self, Len(l.test.v))
           IN  IF r.exc # NoError
               THEN RunRaise(l, after, r.exc)
               ELSE [local |-> [l EXCEPT !.pc = StepAfter(l.pc),
                                         !.test_predictions = r.value],
                     self  |-> after]
      [] l.pc = "TestForecast" ->
           LET r == evaluate(l.test.v, l.test_predictions.v)
           IN  IF r.exc # NoError
               THEN RunRaise(l, self, r.exc)
               ELSE [local |-> [l EXCEPT !.pc = StepAfter(l.pc), !.metrics = r.value],
                     self  |-> self]
      [] l.pc = "Scored" ->
           LET r == fit_arima(self, RefitInput(l.train.v, l.test.v, l.df), outcome)
               m == [l EXCEPT !.fits = Append(@, outcome)]
           IN  IF r.exc # NoError
               THEN RunRaise(m, r.self, r.exc)
               ELSE [local |-> [m EXCEPT !.pc = StepAfter(l.pc)], self |-> r.self]
      [] l.pc = "RefitFull" ->
           LET r == predict(self, l.forecast_weeks)
               after == SelfAfterPredict(self, l.forecast_weeks)
           IN  IF r.exc # NoError
               THEN RunRaise(l, after, r.exc)
               ELSE [local |-> [l EXCEPT !.pc = StepAfter(l.pc),
                                         !.future_forecast = r.value],
                     self  |-> after]
      [] l.pc = "FutureForecast" ->
           [local |-> [l EXCEPT !.pc = StepAfter(l.pc),
                                !.result = Some(Report(l.metrics.v, l.test.v,
                                                       l.test_predictions.v,
                                                       l.future_forecast.v, self))],
            self  |-> self]
      [] OTHER -> [local |-> l, self |-> self]

\* the frames and arguments the interleaved calls are made with
ConcurrentLengths == {MinArimaPoints, MaxLen}

ConcurrentArgs ==
    {InitialRun(Frame(n, p, "sorted"), AllColumns, MaxForecastWeeks, tw) :
        n \in ConcurrentLengths, p \in {0, MaxPattern}, tw \in {1, MaxTestWeeks}}

InitConcurrent ==
    /\ df = << >>
    /\ df_columns = AllColumns
    /\ forecast_weeks = 0
    /\ test_weeks = 0
    /\ pc = "Idle"
    /\ forecaster = NewForecaster
    /\ train = None
    /\ test = None
    /\ test_predictions = None
    /\ metrics = None
    /\ future_forecast = None
    /\ result = None
    /\ error = NoError
    /\ scored_model = NoModel
    /\ call = NoCall
    /\ runs \in [RunIds -> ConcurrentArgs]
    /\ heap = [o \in RunIds |-> NewForecaster]

\* call r executes its next statement
RunStep(r) ==
    /\ runs[r].pc \notin {"Done", "Failed"}
    /\ \E outcome \in (IF IsFitStep(runs[r].pc) THEN FitOutcomes ELSE {NoOutcome}) :
         LET s == RunStatement(runs[r], heap[ForecasterOf(r)], outcome)
         IN  /\ runs' = [runs EXCEPT ![r] = s.local]
             /\ heap' = [heap EXCEPT ![ForecasterOf(r)] = s.self]
    /\ UNCHANGED << pipelineArgs, pc, forecaster, pipelineLocals, result, error, call >>

NextConcurrent == \E r \in RunIds : RunStep(r)

SpecConcurrent == InitConcurrent /\ [][NextConcurrent]_vars

\* ------------------------------------------------ data_fetcher: names
\* A column name is a sequence of characters.
UpperCase ==
    << "A", "B", "C", "D", "E", "F", "G", "H", "I", "J", "K", "L", "M", "N", "O", "P", "Q", "R", "S", "T", "U", "V", "W", "X", "Y", "Z" >>

LowerCase ==
    << "a", "b", "c", "d", "e", "f", "g", "h", "i", "j", "k", "l", "m", "n", "o", "p", "q", "r", "s", "t", "u", "v", "w", "x", "y", "z" >>

\* str.lower on one character
LowerChar(c) ==
    IF \E i \in 1..Len(UpperCase) : UpperCase[i] = c
    THEN LowerCase[CHOOSE i \in 1..Len(UpperCase) : UpperCase[i] = c]
    ELSE c

StrLower(name) == [i \in 1..Len(name) |-> LowerChar(name[i])]

RECURSIVE StripLeft(_)
StripLeft(name) ==
    IF name # << >> /\ Head(name) = " " THEN StripLeft(Tail(name)) ELSE name

RECURSIVE StripRight(_)
StripRight(name) ==
    IF name # << >> /\ name[Len(name)] = " "
    THEN StripRight(SubSeq(name, 1, Len(name) - 1))
    ELSE name

\* str.strip
StrStrip(name) == StripRight(StripLeft(name))

RECURSIVE StrReplace(_, _, _)
\* str.replace of one character by a string
StrReplace(name, old, new) ==
    IF name = << >> THEN << >>
    ELSE (IF Head(name) = old THEN new ELSE << Head(name) >>)
            \o StrReplace(Tail(name), old, new)

ColYear == << "y", "e", "a", "r" >>

ColWeek == << "w", "e", "e", "k" >>

ColIliPercentage == << "i", "l", "i", "_", "p", "e", "r", "c", "e", "n", "t", "a", "g", "e" >>

ColRegion == << "r", "e", "g", "i", "o", "n" >>

ColSeason == << "s", "e", "a", "s", "o", "n" >>

ColNumProviders == << "n", "u", "m", "_", "p", "r", "o", "v", "i", "d", "e", "r", "s" >>

ColTotalPatients == << "t", "o", "t", "a", "l", "_", "p", "a", "t", "i", "e", "n", "t", "s" >>

ColTotalIli == << "t", "o", "t", "a", "l", "_", "i", "l", "i" >>

\* line 118
RequiredCols == << ColYear, ColWeek, ColIliPercentage >>

\* lines 126-134: the pairs of column_mapping
ColumnMapping ==
    { << << "w", "e", "i", "g", "h", "t", "e", "d", "_", "i", "l", "i" >>, ColIliPercentage >>,
      << << "w", "i", "l", "i" >>, ColIliPercentage >>,
      << << "%", "_", "w", "e", "i", "g", "h", "t", "e", "d", "_", "i", "l", "i" >>, ColIliPercentage >>,
      << << "i", "l", "i", "t", "o", "t", "a", "l" >>, ColTotalIli >>,
      << << "t", "o", "t", "a", "l", "_", "p", "a", "t", "i", "e", "n", "t", "s" >>, ColTotalPatients >>,
      << << "n", "u", "m", ".", "_", "o", "f", "_", "p", "r", "o", "v", "i", "d", "e", "r", "s" >>, ColNumProviders >>,
      << << "n", "u", "m", "b", "e", "r", "_", "o", "f", "_", "p", "r", "o", "v", "i", "d", "e", "r", "s" >>, ColNumProviders >> }

\* df.rename(columns=column_mapping) on one name
RenameColumn(name) ==
    IF \E m \in ColumnMapping : m[1] = name
    THEN (CHOOSE m \in ColumnMapping : m[1] = name)[2]
    ELSE name

\* lines 121-123 and 136: the name of a column after standardizing and renaming
StandardName(name) ==
    RenameColumn(
        StrReplace(
            StrReplace(StrStrip(StrLower(name)), " ", << "_" >>),
            "%", << "p", "e", "r", "c", "e", "n", "t", "a", "g", "e" >>))

\* ------------------------------------------------ data_fetcher: cells
\* A cell is a number, a missing value (None or nan), or a string.
\* In the frames of the data fetcher ili_percentage is held in whole percent.
Num(n) == [t |-> "num", v |-> n]

Missing == [t |-> "nan"]

Str(chars) == [t |-> "str", s |-> chars]

Digits == << "0", "1", "2", "3", "4", "5", "6", "7", "8", "9" >>

DigitValue(c) == (CHOOSE i \in 1..Len(Digits) : Digits[i] = c) - 1

RECURSIVE ParseDigits(_, _)
\* the value of a string of decimal digits, read left to right
ParseDigits(chars, acc) ==
    IF chars = << >> THEN acc
    ELSE ParseDigits(Tail(chars), 10 * acc + DigitValue(Head(chars)))

AllDigits(chars) ==
    /\ chars # << >>
    /\ \A i \in 1..Len(chars) : \E d \in 1..Len(Digits) : Digits[d] = chars[i]

\* pd.to_numeric(..., errors='coerce') on one cell: a string that is not a
\* number becomes nan
ToNumeric(cell) ==
    IF cell.t = "num" THEN cell
    ELSE IF cell.t = "nan" THEN Missing
    ELSE LET body == StrStrip(cell.s)
         IN  IF AllDigits(body) THEN Num(ParseDigits(body, 0))
             ELSE IF body # << >> /\ Head(body) = "-" /\ AllDigits(Tail(body))
             THEN Num(0 - ParseDigits(Tail(body), 0))
             ELSE Missing

\* ------------------------------------- data_fetcher: _validate_and_clean
MissingColumnError(col) == [type |-> "ValueError", msg |-> "Missing required column", col |-> col]

\* Series.between(left, right): both ends included
Between(cell, left, right) == cell.t = "num" /\ left <= cell.v /\ cell.v <= right

\* variant: week 53 is refused
WeekInRange_52(cell) == Between(cell, 1, WeeksPerYear)

\* line 155
WeekInRange(cell) == Between(cell, 1, MaxWeek)

\* line 136: the frame under its standard column names
RenamedFrame(frame) ==
    LET cols == {StandardName(c) : c \in frame.columns}
        raw  == [c \in cols |-> CHOOSE r \in frame.columns : StandardName(r) = c]
    IN  [columns |-> cols,
         rows    |-> [k \in 1..Len(frame.rows) |-> [c \in cols |-> frame.rows[k][raw[c]]]]]

\* lines 146-148
CoerceRow(row) ==
    [c \in DOMAIN row |->
        IF \E j \in 1..Len(RequiredCols) : RequiredCols[j] = c
        THEN ToNumeric(row[c]) ELSE row[c]]

\* lines 151-155 on one row
KeepRow(row) ==
    /\ \A j \in 1..Len(RequiredCols) : row[RequiredCols[j]].t # "nan"
    /\ Between(row[ColIliPercentage], 0, MaxIliPercentage)
    /\ WeekInRange(row[ColWeek])

\* lines 114-157
validate_and_clean(frame) ==
    LET renamed == RenamedFrame(frame)
        absent  == {j \in 1..Len(RequiredCols) : RequiredCols[j] \notin renamed.columns}
    IN  IF absent # {}
        THEN [exc   |-> MissingColumnError(
                           RequiredCols[CHOOSE j \in absent : \A k \in absent : j <= k]),
              value |-> None]
        ELSE LET coerced == [k \in 1..Len(renamed.rows) |-> CoerceRow(renamed.rows[k])]
             IN  [exc   |-> NoError,
                  value |-> Some([columns |-> renamed.columns,
                                  rows    |-> SelectSeq(coerced, KeepRow)])]

\* ------------------------------------------ data_fetcher: sample data
\* lines 208-219: the seeded draw of one week, by a value of its range
SampleIli(week) ==
    IF week <= 10 \/ week >= 48 THEN 5
    ELSE IF 20 <= week /\ week <= 35 THEN 1
    ELSE 2

SampleColumns ==
    {ColYear, ColWeek, ColRegion, ColIliPercentage, ColNumProviders, ColTotalPatients,
     ColTotalIli}

\* lines 221-229; the three counts by the lowest value of their ranges
SampleRow(year, week) ==
    [c \in SampleColumns |->
        CASE c = ColYear          -> Num(year)
          [] c = ColWeek          -> Num(week)
          [] c = ColRegion        -> Str(<< "N", "a", "t", "i", "o", "n", "a", "l" >>)
          [] c = ColIliPercentage -> Num(SampleIli(week))
          [] c = ColNumProviders  -> Num(2000)
          [] c = ColTotalPatients -> Num(50000)
          [] OTHER                -> Num(1000)]

\* lines 188-231: one row per year of range(2020, 2026) and week of range(1, 53)
fetch_sample_data ==
    [columns |-> SampleColumns,
     rows    |-> [k \in 1..((SampleYearEnd - FirstYear) * WeeksPerYear) |->
                    SampleRow(FirstYear + (k - 1) \div WeeksPerYear,
                              ((k - 1) % WeeksPerYear) + 1)]]

\* ------------------------------------- data_fetcher: fetch_national_ili
StartAfterEndError ==
    [type |-> "ValueError", msg |-> "start_year cannot be greater than end_year"]

TooEarlyError ==
    [type |-> "ValueError", msg |-> "CDC ILI data only available from 1997 onwards"]

ConnectionError == [type |-> "ConnectionError", msg |-> "Failed to fetch CDC data"]

RECURSIVE IntToStr(_)
\* str(n) for n >= 0
IntToStr(n) ==
    IF n < 10 THEN << Digits[n + 1] >>
    ELSE IntToStr(n \div 10) \o << Digits[(n % 10) + 1] >>

\* line 91: f"{year}-{str(year+1)[2:]}"
Season(year) == IntToStr(year) \o << "-" >> \o PySliceFrom(IntToStr(year + 1), 2)

\* line 101: df['season'] = season
WithSeason(frame, year) ==
    [columns |-> frame.columns \cup {ColSeason},
     rows    |-> [k \in 1..Len(frame.rows) |->
                    [c \in frame.columns \cup {ColSeason} |->
                        IF c = ColSeason THEN Str(Season(year)) ELSE frame.rows[k][c]]]]

\* what one request of the loop meets: session.get or read_csv raises, the
\* status is not 200, or a csv is read
RaisesResponse == [kind |-> "raises"]

NotFoundResponse == [kind |-> "status", code |-> 404]

CsvResponse(frame) == [kind |-> "ok", frame |-> frame]

RECURSIVE CollectYears(_, _, _)
\* lines 88-105: the frames appended to all_data for year..end_year
CollectYears(year, end_year, responses) ==
    IF year > end_year THEN << >>
    ELSE (IF responses[year].kind = "ok"
          THEN << WithSeason(responses[year].frame, year) >>
          ELSE << >>)
         \o CollectYears(year + 1, end_year, responses)

RECURSIVE ConcatColumns(_)
ConcatColumns(frames) ==
    IF frames = << >> THEN {} ELSE Head(frames).columns \cup ConcatColumns(Tail(frames))

RECURSIVE ConcatRows(_, _)
ConcatRows(frames, cols) ==
    IF frames = << >> THEN << >>
    ELSE [k \in 1..Len(Head(frames).rows) |->
             [c \in cols |-> IF c \in Head(frames).columns
                             THEN Head(frames).rows[k][c] ELSE Missing]]
         \o ConcatRows(Tail(frames), cols)

\* line 108: pd.concat(all_data, ignore_index=True)
Concat(frames) ==
    [columns |-> ConcatColumns(frames), rows |-> ConcatRows(frames, ConcatColumns(frames))]

\* lines 77-112
fetch_ilinet_data(start_year, end_year, responses) ==
    LET all_data == CollectYears(start_year, end_year, responses)
    IN  IF all_data # << >>
        THEN [data |-> Concat(all_data), sample |-> FALSE]
        ELSE [data |-> fetch_sample_data, sample |-> TRUE]

\* lines 42-75; now is datetime.now().year. No statement of the try block
\* lets a requests.RequestException out of _fetch_ilinet_data, whose loop
\* catches every exception, so the except clause has nothing to wrap.
fetch_national_ili(start_year, end_year, now, responses) ==
    LET last == IF end_year = None THEN now ELSE end_year.v
    IN  IF start_year > last THEN [exc |-> StartAfterEndError, value |-> None]
        ELSE IF start_year < FirstIliYear THEN [exc |-> TooEarlyError, value |-> None]
        ELSE validate_and_clean(fetch_ilinet_data(start_year, last, responses).data)

\* ---------------------------------------------- data_fetcher: inputs
\* the raw names of the year, week and ILI columns of a frame, in this order
RawColumnVariants ==
    { << ColYear, ColWeek, ColIliPercentage >>,
      << << "Y", "E", "A", "R" >>, << " ", "W", "e", "e", "k", " " >>, << "w", "I", "L", "I" >> >>,
      << ColYear, ColWeek, ColRegion >>,
      << << "Y", "E", "A", "R" >>, << "W", "E", "E", "K" >>, << "%", " ", "W", "E", "I", "G", "H", "T", "E", "D", " ", "I", "L", "I" >> >>,
      << ColRegion, ColWeek, << "W", "e", "i", "g", "h", "t", "e", "d", " ", "I", "L", "I" >> >> }

\* rows as (year, week, ili) cells: kept ones, and one for every way of
\* being dropped
RawTriples ==
    { << Num(2023), Num(1), Num(0) >>,
      << Num(2023), Num(MaxWeek), Num(MaxIliPercentage) >>,
      << Str(<< "2", "0", "2", "3" >>), Str(<< " ", "3" >>), Str(<< "4" >>) >>,
      << Num(2023), Num(0), Num(3) >>,
      << Num(2023), Num(MaxWeek + 1), Num(4) >>,
      << Num(2023), Num(2), Num(0 - 1) >>,
      << Num(2023), Num(2), Num(MaxIliPercentage + 1) >>,
      << Missing, Num(2), Num(4) >>,
      << Num(2023), Missing, Num(3) >>,
      << Num(2023), Num(2), Str(<< "x" >>) >> }

RawFrame(variant, triples) ==
    LET cols == {variant[j] : j \in 1..3}
    IN  [columns |-> cols,
         rows    |-> [k \in 1..Len(triples) |->
                        [c \in cols |-> triples[k][CHOOSE j \in 1..3 : variant[j] = c]]]]

RawFrames ==
    {RawFrame(v, t) : v \in RawColumnVariants,
                      t \in UNION {[1..n -> RawTriples] : n \in 0..MaxRawRows}}

\* the csv files a request can return
CsvFrames ==
    { RawFrame(<< << "Y", "E", "A", "R" >>, << " ", "W", "e", "e", "k", " " >>, << "w", "I", "L", "I" >> >>,
               << << Num(2023), Num(1), Num(3) >>, << Num(2023), Num(0), Num(3) >> >>),
      RawFrame(<< << "Y", "E", "A", "R" >>, << "W", "E", "E", "K" >>, << "%", " ", "W", "E", "I", "G", "H", "T", "E", "D", " ", "I", "L", "I" >> >>, << << Num(2023), Num(1), Num(3) >> >>) }

Responses == {RaisesResponse, NotFoundResponse} \cup {CsvResponse(f) : f \in CsvFrames}

\* datetime.now().year
ClockYears == {SampleYearEnd - 1, SampleYearEnd}

StartYears == {FirstIliYear - 1, SampleYearEnd - 1, SampleYearEnd, SampleYearEnd + 1}

EndYears == {None, Some(SampleYearEnd - 1)}

FetcherCalls ==
    {[fn |-> "_validate_and_clean", df |-> f] : f \in RawFrames}
      \cup {[fn |-> "fetch_national_ili", start_year |-> sy, end_year |-> ey, now |-> n,
             responses |-> r] :
               sy \in StartYears, ey \in EndYears, n \in ClockYears,
               r \in [(SampleYearEnd - 1)..SampleYearEnd -> Responses]}

InitFetcher ==
    /\ df = << >>
    /\ df_columns = AllColumns
    /\ forecast_weeks = 0
    /\ test_weeks = 0
    /\ pc = "Idle"
    /\ forecaster = NewForecaster
    /\ train = None
    /\ test = None
    /\ test_predictions = None
    /\ metrics = None
    /\ future_forecast = None
    /\ result = None
    /\ error = NoError
    /\ scored_model = NoModel
    /\ runs = << >>
    /\ heap = << >>
    /\ \E c \in FetcherCalls :
         call = [op |-> "pending", arg |-> Some(c), exc |-> NoError, value |-> None]

\* fetcher._validate_and_clean(df) on the pending arguments
ApplyValidateAndClean ==
    /\ call.op = "pending"
    /\ call.arg.v.fn = "_validate_and_clean"
    /\ LET r == validate_and_clean(call.arg.v.df)
       IN  call' = [call EXCEPT !.op = "_validate_and_clean", !.exc = r.exc,
                                !.value = r.value]
    /\ UNCHANGED << forecaster, pipelineVars >>

\* fetcher.fetch_national_ili(start_year, end_year) on the pending arguments
ApplyFetchNationalIli ==
    /\ call.op = "pending"
    /\ call.arg.v.fn = "fetch_national_ili"
    /\ LET a == call.arg.v
           r == fetch_national_ili(a.start_year, a.end_year, a.now, a.responses)
       IN  call' = [call EXCEPT !.op = "fetch_national_ili", !.exc = r.exc,
                                !.value = r.value]
    /\ UNCHANGED << forecaster, pipelineVars >>

NextFetcher ==
    \/ ApplyValidateAndClean
    \/ ApplyFetchNationalIli

SpecFetcher == InitFetcher /\ [][NextFetcher]_vars

\* ================================================================ claims
PipelineOrder ==
    << "Idle", "Split", "TrainFit", "TestForecast", "Scored", "RefitFull",
       "FutureForecast", "Done" >>

TargetPresent == "ili_percentage" \in df_columns

KeysPresent == {"year", "week"} \subseteq df_columns

\* C1: for a frame of L rows already in ascending (year, week) order and a
\* test_size k >= 1 with L >= k + 10, prepare_data returns train of length
\* L - k and test of length k, and train followed by test is the target
\* column in its original order.
C1_SplitReconstructsSeries ==
    (/\ pc # "Idle"
     /\ TargetPresent /\ KeysPresent
     /\ IsSortedFrame(df)
     /\ test_weeks >= 1
     /\ Len(df) >= test_weeks + 10)
    => /\ train # None /\ test # None
       /\ Len(train.v) = Len(df) - test_weeks
       /\ Len(test.v) = test_weeks
       /\ train.v \o test.v = ColumnValues(df)

C1_Witness ==
    /\ pc = "Split"
    /\ IsSortedFrame(df)
    /\ test_weeks = 2
    /\ Len(df) = 12
    /\ Len(train.v) = 10 /\ Len(test.v) = 2
    /\ test.v # SubSeq(train.v, 1, 2)

\* C2: one run performs Split, TrainFit (on train), TestForecast (len(test)
\* steps), Scored, RefitFull (on all observations), FutureForecast
\* (forecast_weeks steps), Done in exactly this order, none skipped, repeated or
\* reordered; the only other move is the end of the run in failure; the
\* evaluation is finished before the refit starts.
C2_StepMove ==
    pc' # pc =>
      /\ \/ pc # "Done" /\ pc' = "Failed"
         \/ \E i \in 1..(Len(PipelineOrder) - 1) :
              pc = PipelineOrder[i] /\ pc' = PipelineOrder[i + 1]
      /\ pc' = "Split" => train' # None /\ test' # None
      /\ pc' = "TrainFit" =>
            /\ forecaster'.is_fitted
            /\ forecaster'.model.kind = "ARIMAResults"
            /\ forecaster'.model.endog = train.v
      /\ pc' = "TestForecast" =>
            /\ test_predictions = None
            /\ Len(test_predictions'.v) = Len(test.v)
      /\ pc' = "Scored" => metrics = None /\ metrics' # None
      /\ pc' = "RefitFull" =>
            /\ metrics # None /\ metrics' = metrics
            /\ forecaster'.model.kind = "ARIMAResults"
            /\ Len(forecaster'.model.endog) = Len(df)
      /\ pc' = "FutureForecast" =>
            /\ future_forecast = None
            /\ Len(future_forecast'.v) = forecast_weeks
      /\ pc' = "Done" => result = None /\ result' # None

C2_StepsInOrder == [][C2_StepMove]_vars

C2_Witness == pc = "Done" /\ result # None /\ metrics # None /\ future_forecast # None

\* C3: in every run that returns a report, test_predicted is the forecast of
\* the model that was fitted on train, metrics is the score of that forecast
\* against test, and test_actual is test; for test_weeks >= 1 train is the
\* time-ordered series without its last test_weeks observations and test is
\* those observations.  The model refitted on all observations is another
\* model and is in place only after these three values were fixed.
C3_MetricsFromHoldoutOnly ==
    result # None =>
      LET ordered == ColumnValues(SortValues(df))
          L       == Len(df)
      IN  /\ scored_model.kind = "ARIMAResults"
          /\ scored_model.endog = train.v
          /\ test_weeks >= 1 =>
                /\ train.v = SubSeq(ordered, 1, L - test_weeks)
                /\ test.v = SubSeq(ordered, L - test_weeks + 1, L)
          /\ result.v.test_actual = test.v
          /\ result.v.test_predicted = ClampAtZero(ArimaForecast(scored_model, Len(test.v)))
          /\ result.v.metrics = evaluate(test.v, result.v.test_predicted).value.v
          /\ forecaster.model.endog # scored_model.endog
          /\ Len(forecaster.model.endog) = Len(scored_model.endog) + Len(test.v)

C3_Witness ==
    /\ pc = "Done"
    /\ result # None
    /\ test_weeks = 2
    /\ result.v.test_predicted # ClampAtZero(ArimaForecast(forecaster.model, Len(test.v)))
    /\ result.v.metrics # evaluate(test.v, ClampAtZero(ArimaForecast(forecaster.model,
                                                                   Len(test.v)))).value.v

\* C4: the second fit is given the entire series, which is exactly train
\* followed by test as produced by the split, in the same order, and
\* future_forecast is the forecast of that refitted model.
C4_RefitOnTrainThenTest ==
    pc \in {"RefitFull", "FutureForecast", "Done"} =>
      /\ forecaster.model.kind = "ARIMAResults"
      /\ forecaster.model.endog = train.v \o test.v
      /\ future_forecast # None =>
            future_forecast.v = ClampAtZero(ArimaForecast(forecaster.model, forecast_weeks))

\* C5: when a step raises, the run ends in failure with that step's error and
\* nothing is returned; a report exists only after Done and then has all its
\* fields filled; a failed run takes no further step.
C5_StepErrors(p) ==
    CASE p = "Idle"         -> {ColumnNotFoundError, NotEnoughDataError, KeyColumnError}
      [] p = "Split"        -> {ArimaTooShortError, ArimaFittingError}
      [] p = "TrainFit"     -> {StepsError}
      [] p = "TestForecast" -> {EvaluateInputError}
      [] p = "Scored"       -> {ArimaTooShortError, ArimaFittingError}
      [] p = "RefitFull"    -> {StepsError}
      [] OTHER              -> {}

C5_State ==
    /\ pc = "Failed" <=> error # NoError
    /\ pc = "Failed" => result = None
    /\ result # None =>
          /\ pc = "Done"
          /\ error = NoError
          /\ result.v.metrics = metrics.v
          /\ result.v.metrics.MAE >= 0 /\ result.v.metrics.RMSE >= 0
          /\ Len(result.v.test_actual) >= 1
          /\ Len(result.v.test_predicted) = Len(result.v.test_actual)
          /\ Len(result.v.future_forecast) >= 1
          /\ result.v.model_type = "ARIMA"

C5_Move ==
    /\ pc = "Failed" => UNCHANGED vars
    /\ (pc # "Failed" /\ pc' = "Failed") => error' \in C5_StepErrors(pc)
    /\ pc' # pc => C5_State'

C5_FailurePropagates == [][C5_Move]_vars

C5_Witness ==
    /\ pc = "Failed"
    /\ error = ArimaFittingError
    /\ metrics # None /\ test_predictions # None
    /\ result = None

\* C6: for every series with fewer than test_weeks + 10 observations the run
\* fails in the split with the insufficient-data error, before any model is
\* fitted.
C6_TooShortForSplit ==
    (pc # "Idle" /\ TargetPresent /\ Len(df) < test_weeks + 10) =>
      /\ pc = "Failed"
      /\ error = NotEnoughDataError
      /\ train = None /\ test = None
      /\ forecaster = NewForecaster
      /\ result = None

C6_Witness ==
    /\ pc = "Failed"
    /\ error = NotEnoughDataError
    /\ test_weeks = 2
    /\ Len(df) = 11

\* C7: every report returned has future_forecast of length forecast_weeks,
\* test_actual and test_predicted of length test_weeks, and model_type 'ARIMA'.
C7_ReportShape ==
    result # None =>
      /\ DOMAIN result.v =
            {"metrics", "test_actual", "test_predicted", "future_forecast", "model_type"}
      /\ Len(result.v.future_forecast) = forecast_weeks
      /\ Len(result.v.test_actual) = test_weeks
      /\ Len(result.v.test_predicted) = test_weeks
      /\ result.v.model_type = "ARIMA"

\* C8: predict on a forecaster on which no fit has succeeded fails with the
\* not-fitted error and returns nothing, whatever steps is (also steps < 1).
C8_Move ==
    (call'.op = "predict" /\ ~forecaster.is_fitted) =>
      /\ call'.exc = NotFittedError
      /\ call'.value = None
      /\ forecaster' = forecaster

C8_PredictBeforeFit == [][C8_Move]_vars

C8_Witness ==
    /\ call.op = "predict"
    /\ call.arg.v < 1
    /\ call.exc = NotFittedError
    /\ ~forecaster.is_fitted
    /\ forecaster.train_data # None

\* C9: predict with steps < 1 on a fitted forecaster (ARIMA or moving
\* average) fails with the invalid-argument error, returns no forecast and
\* leaves the fitted model unchanged.
C9_Move ==
    (call'.op = "predict" /\ forecaster.is_fitted /\ call'.arg.v < 1) =>
      /\ call'.exc = StepsError
      /\ call'.value = None
      /\ forecaster' = forecaster

C9_PredictInvalidSteps == [][C9_Move]_vars

C9_Witness ==
    /\ call.op = "predict"
    /\ call.arg.v = 0
    /\ call.exc = StepsError
    /\ forecaster.is_fitted
    /\ forecaster.model_type = "ARIMA"
    /\ forecaster.model.kind = "ARIMAResults"

\* C10: fit_arima on fewer than 20 points fails with the insufficient-data
\* error ("at least 20") and leaves is_fitted, model, model_type and
\* train_data as they were.
C10_Move ==
    (call'.op = "fit_arima" /\ Len(call'.arg.v) < 20) =>
      /\ call'.exc = [type |-> "ValueError", msg |-> "Need at least 20 data points for ARIMA"]
      /\ forecaster'.is_fitted = forecaster.is_fitted
      /\ forecaster'.model = forecaster.model
      /\ forecaster'.model_type = forecaster.model_type
      /\ forecaster'.train_data = forecaster.train_data

C10_FitArimaTooShort == [][C10_Move]_vars

C10_Witness ==
    /\ call.op = "fit_arima"
    /\ Len(call.arg.v) = 19
    /\ call.exc = ArimaTooShortError
    /\ forecaster.is_fitted
    /\ forecaster.train_data # Some(call.arg.v)

\* C11: on a forecaster fitted with fit_arima, predict(steps >= 1) returns
\* exactly steps values, each the raw model forecast v returned as max(0, v),
\* hence each >= 0.
C11_ArimaForecastClamped ==
    (/\ call.op = "predict"
     /\ call.arg.v >= 1
     /\ forecaster.is_fitted
     /\ forecaster.model_type = "ARIMA"
     /\ forecaster.model.kind = "ARIMAResults")
    => /\ call.exc = NoError
       /\ Len(call.value.v) = call.arg.v
       /\ \A i \in 1..call.arg.v :
            LET raw == forecaster.model.endog[Len(forecaster.model.endog)]
                           + forecaster.model.drift * i
            IN  /\ call.value.v[i] >= 0
                /\ call.value.v[i] = IF raw > 0 THEN raw ELSE 0

C11_Witness ==
    /\ call.op = "predict"
    /\ call.arg.v = 2
    /\ call.exc = NoError
    /\ forecaster.model_type = "ARIMA"
    /\ forecaster.model.kind = "ARIMAResults"
    /\ forecaster.model.endog[Len(forecaster.model.endog)] + forecaster.model.drift * 2 < 0
    /\ call.value.v[2] = 0

\* C12: every value predict(steps >= 1) returns is >= 0 whichever strategy
\* produced it, also after fit_moving_average on any training series.
C12_ForecastNonNegative ==
    (call.op = "predict" /\ call.exc = NoError) =>
      \A i \in 1..Len(call.value.v) : call.value.v[i] >= 0

\* C13: after fit_moving_average(train, window), value i of predict(steps) is
\* the arithmetic mean of the last `window` elements of the stored trailing
\* training values followed by the values 1..i-1 already predicted (to the
\* resolution of the number format); predict(steps=1) is the mean of the
\* last `window` training values.
C13_WindowAt(i) ==
    LET seq == forecaster.model.last_values \o SubSeq(call.value.v, 1, i - 1)
        cnt == IF Len(seq) < forecaster.model.window THEN Len(seq)
               ELSE forecaster.model.window
    IN  SubSeq(seq, Len(seq) - cnt + 1, Len(seq))

C13_State ==
    (/\ call.op = "predict" /\ call.exc = NoError
     /\ forecaster.model_type = "MovingAverage"
     /\ forecaster.model.kind = "dict"
     /\ forecaster.model.last_values # << >>)
    => /\ Len(call.value.v) = call.arg.v
       /\ \A i \in 1..call.arg.v :
            LET w == C13_WindowAt(i)
            IN  /\ Len(w) >= 1
                /\ 2 * Abs(call.value.v[i] * Len(w) - SumSeq(w)) <= Len(w)

C13_Move ==
    (/\ call.op = "fit_moving_average" /\ call.arg.v.train_data # << >>
     /\ call'.op = "predict" /\ call'.arg.v >= 1)
    => LET td == call.arg.v.train_data
           k  == IF Len(td) < call.arg.v.window THEN Len(td) ELSE call.arg.v.window
       IN  /\ call'.exc = NoError
           /\ 2 * Abs(call'.value.v[1] * k - SumSeq(SubSeq(td, Len(td) - k + 1, Len(td)))) <= k

C13_MovingAverageIsWindowMean == [][C13_Move /\ C13_State']_vars

C13_Witness ==
    /\ call.op = "predict" /\ call.exc = NoError
    /\ call.arg.v = 2
    /\ forecaster.model_type = "MovingAverage"
    /\ forecaster.model.kind = "dict"
    /\ forecaster.model.window = 2
    /\ Len(forecaster.train_data.v) > 2
    /\ call.value.v[2] # call.value.v[1]

\* C14: fit_moving_average never fails: for every training series and window
\* >= 1, also when the series is shorter than the window, it stores the
\* trailing min(window, len) values in order, sets is_fitted and model_type
\* 'MovingAverage', and the predict(steps >= 1) that follows returns.
C14_Move ==
    /\ call'.op = "fit_moving_average" =>
          LET td == call'.arg.v.train_data
              w  == call'.arg.v.window
              k  == IF Len(td) < w THEN Len(td) ELSE w
          IN  /\ call'.exc = NoError
              /\ forecaster'.is_fitted
              /\ forecaster'.model_type = "MovingAverage"
              /\ forecaster'.model.kind = "dict"
              /\ forecaster'.model.window = w
              /\ forecaster'.model.last_values = SubSeq(td, Len(td) - k + 1, Len(td))
              /\ forecaster'.train_data = Some(td)
    /\ (call.op = "fit_moving_average" /\ call'.op = "predict" /\ call'.arg.v >= 1) =>
          /\ call'.exc = NoError
          /\ Len(call'.value.v) = call'.arg.v

C14_MovingAverageNeverFails == [][C14_Move]_vars

C14_Witness ==
    /\ call.op = "fit_moving_average"
    /\ call.arg.v.train_data # << >>
    /\ Len(call.arg.v.train_data) < call.arg.v.window
    /\ forecaster.model.last_values = call.arg.v.train_data
    /\ call.exc = NoError

\* ---- evaluate: the arguments of the call cut to their common length
EvalMinLen ==
    IF Len(call.arg.v.test_data) < Len(call.arg.v.predictions)
    THEN Len(call.arg.v.test_data) ELSE Len(call.arg.v.predictions)

EvalActual == SubSeq(call.arg.v.test_data, 1, EvalMinLen)

EvalPred == SubSeq(call.arg.v.predictions, 1, EvalMinLen)

\* C15: evaluate on sequences of different lengths never raises; it returns
\* the metrics of both sequences cut to their first min(len, len) elements,
\* and that MAE is >= 0.
C15_MismatchNeverRaises ==
    (call.op = "evaluate" /\ Len(call.arg.v.test_data) # Len(call.arg.v.predictions)) =>
      /\ call.exc = NoError
      /\ call.value # None
      /\ call.value.v.MAE >= 0
      /\ call.value = evaluate(EvalActual, EvalPred).value

\* C16: MAPE is the mean over exactly the positions with actual != 0 (zero
\* positions are in neither the sum nor the count); it is None if and only
\* if every actual value is zero, and MAE and RMSE are returned then too.
C16_RatioSum ==
    SumSeq([i \in 1..EvalMinLen |->
               IF EvalActual[i] # 0
               THEN RoundHalfEven(1000000 * Abs(EvalActual[i] - EvalPred[i]),
                                  Abs(EvalActual[i]))
               ELSE 0])

C16_NonZeroCount == Cardinality({i \in 1..EvalMinLen : EvalActual[i] # 0})

C16_MapeOverNonZero ==
    (call.op = "evaluate" /\ call.exc = NoError) =>
      /\ call.value.v.MAPE = None <=> (\A i \in 1..EvalMinLen : EvalActual[i] = 0)
      /\ call.value.v.MAE >= 0
      /\ call.value.v.RMSE >= 0
      /\ call.value.v.MAE = 0 <=> EvalActual = EvalPred
      /\ call.value.v.MAPE # None =>
            2 * Abs(call.value.v.MAPE.v * 100 * C16_NonZeroCount - C16_RatioSum)
               <= 100 * C16_NonZeroCount

C16_Witness ==
    /\ call.op = "evaluate" /\ call.exc = NoError
    /\ EvalMinLen = 2
    /\ EvalActual[1] = 0 /\ EvalActual[2] # 0
    /\ EvalPred[1] # 0 /\ EvalPred[2] # EvalActual[2]
    /\ call.value.v.MAPE # None

\* C17: for every non-empty x, evaluate(x, x) returns a record with the keys
\* MAE, RMSE and MAPE in which MAE = 0 and RMSE = 0.
C17_PerfectPrediction ==
    (/\ call.op = "evaluate"
     /\ call.arg.v.test_data = call.arg.v.predictions
     /\ call.arg.v.test_data # << >>)
    => /\ call.exc = NoError
       /\ DOMAIN call.value.v = {"MAE", "RMSE", "MAPE"}
       /\ call.value.v.MAE = 0
       /\ call.value.v.RMSE = 0

C17_Witness ==
    /\ call.op = "evaluate" /\ call.exc = NoError
    /\ call.arg.v.test_data = call.arg.v.predictions
    /\ call.arg.v.test_data = << 3, 1 >>
    /\ call.value.v.MAE = 0

\* C19: run_forecast_pipeline and prepare_data do not mutate their input:
\* at every step of a run, failed or not, the caller's frame keeps its rows,
\* their order and their values, and the arguments stay as passed, so that
\* splitting the caller's data again gives the split the run has made.
C19_Move ==
    /\ df' = df
    /\ df_columns' = df_columns
    /\ forecast_weeks' = forecast_weeks
    /\ test_weeks' = test_weeks

C19_State ==
    (train # None) =>
       LET again == prepare_data(df, df_columns, "ili_percentage", test_weeks)
       IN  /\ again.exc = NoError
           /\ again.train = train.v
           /\ again.test = test.v

C19_InputNotMutated == [][C19_Move]_vars /\ []C19_State

C19_Witness ==
    /\ pc = "Done"
    /\ result # None
    /\ ~IsSortedFrame(df)
    /\ train # None

\* C20: only a fit changes the model state: predict (any steps, succeeding
\* or failing), evaluate and get_model_summary leave model, model_type,
\* is_fitted and train_data as they were; for a moving-average model two
\* predict calls in a row agree on their common prefix (equal for equal
\* steps, predict(n) the first n values of predict(m) for n <= m).
C20_Move ==
    /\ call'.op \in {"predict", "evaluate", "get_model_summary"} =>
          /\ forecaster'.model = forecaster.model
          /\ forecaster'.model_type = forecaster.model_type
          /\ forecaster'.is_fitted = forecaster.is_fitted
          /\ forecaster'.train_data = forecaster.train_data
    /\ (/\ call.op = "predict" /\ call.exc = NoError
        /\ call'.op = "predict" /\ call'.exc = NoError
        /\ forecaster.model_type = "MovingAverage") =>
          LET n == Min2(call.arg.v, call'.arg.v)
          IN  SubSeq(call.value.v, 1, n) = SubSeq(call'.value.v, 1, n)

C20_OnlyFitChangesModel == [][C20_Move]_vars

C20_Witness ==
    /\ call.op = "predict" /\ call.exc = NoError
    /\ forecaster.model_type = "MovingAverage"
    /\ forecaster.model.kind = "dict"
    /\ forecaster.train_data # None
    /\ forecaster.model.last_values = forecaster.train_data.v
    /\ Len(forecaster.model.last_values) = 2
    /\ Len(call.value.v) = 2
    /\ call.value.v[1] # call.value.v[2]

\* ---- a call run alone: its statements replayed from its arguments with the
\* statsmodels outcomes the call has drawn
C18_Start(l) ==
    [local |-> InitialRun(l.df, l.df_columns, l.forecast_weeks, l.test_weeks),
     self  |-> NewForecaster]

C18_CanStep(s, fits) ==
    /\ s.local.pc \notin {"Done", "Failed"}
    /\ IsFitStep(s.local.pc) => Len(s.local.fits) < Len(fits)

C18_Step(s, fits) ==
    RunStatement(s.local, s.self,
                 IF IsFitStep(s.local.pc) THEN fits[Len(s.local.fits) + 1] ELSE NoOutcome)

RECURSIVE C18_OnSoloRun(_, _, _, _)
C18_OnSoloRun(cur, s, fits, k) ==
    \/ cur = s
    \/ /\ k > 0
       /\ C18_CanStep(s, fits)
       /\ C18_OnSoloRun(cur, C18_Step(s, fits), fits, k - 1)

RECURSIVE C18_SoloEnd(_, _, _)
C18_SoloEnd(s, fits, k) ==
    IF k > 0 /\ C18_CanStep(s, fits)
    THEN C18_SoloEnd(C18_Step(s, fits), fits, k - 1)
    ELSE s

\* C18: when run_forecast_pipeline calls are interleaved each call has its
\* own forecaster object; at every moment a call's locals and its forecaster
\* are those of the same call run alone on the same inputs (no other call
\* has read or written them), and a finished call has the report, or the
\* error, of the call run alone.
C18_InterleavedCallsIsolated ==
    (DOMAIN runs = RunIds) =>
      \A r \in RunIds :
         LET cur == [local |-> runs[r], self |-> heap[ForecasterOf(r)]]
             end == C18_SoloEnd(C18_Start(runs[r]), runs[r].fits, 7)
         IN  /\ \A q \in RunIds \ {r} : ForecasterOf(q) # ForecasterOf(r)
             /\ C18_OnSoloRun(cur, C18_Start(runs[r]), runs[r].fits, 7)
             /\ runs[r].pc \in {"Done", "Failed"} =>
                   /\ runs[r].result = end.local.result
                   /\ runs[r].error = end.local.error
                   /\ end.local.pc = runs[r].pc

C18_Witness ==
    /\ DOMAIN runs = RunIds
    /\ runs[1].pc = "Done" /\ runs[2].pc = "Done"
    /\ runs[1].df # runs[2].df
    /\ runs[1].result # runs[2].result
    /\ heap[ForecasterOf(1)].is_fitted /\ heap[ForecasterOf(2)].is_fitted
    /\ heap[ForecasterOf(1)].model # heap[ForecasterOf(2)].model

\* C25: a holdout size that is not a positive integer is rejected: for
\* test_size <= 0 prepare_data raises and returns no split, so whenever it
\* has returned a split, test has exactly test_size >= 1 elements and train
\* has at least 10.
C25_HoldoutPositive ==
    /\ (pc # "Idle" /\ test_weeks <= 0) =>
          /\ pc = "Failed"
          /\ train = None /\ test = None
    /\ (train # None /\ test # None) =>
          /\ test_weeks >= 1
          /\ Len(test.v) = test_weeks
          /\ Len(train.v) >= 10

\* C24: for a frame with the needed columns and testWeeks >= 1 with
\* testWeeks + 10 <= len < testWeeks + 20 the split succeeds and the run
\* then fails at the first fit with the error of fewer than 20 points,
\* returning no report; a run is Done only when len >= testWeeks + 20.
C24_State ==
    /\ (/\ pc # "Idle"
        /\ TargetPresent /\ KeysPresent
        /\ test_weeks >= 1
        /\ Len(df) >= test_weeks + 10
        /\ Len(df) < test_weeks + 20) =>
          /\ train # None /\ test # None
          /\ Len(train.v) < 20
          /\ pc \in {"Split", "Failed"}
          /\ pc = "Split" => error = NoError
          /\ pc = "Failed" =>
                /\ error = [type |-> "ValueError",
                            msg  |-> "Need at least 20 data points for ARIMA"]
                /\ result = None
                /\ ~forecaster.is_fitted
    /\ pc = "Done" => Len(df) >= test_weeks + 20

C24_Move ==
    (/\ pc = "Split" /\ pc' # pc
     /\ test_weeks >= 1
     /\ Len(df) < test_weeks + 20) =>
       /\ pc' = "Failed"
       /\ error' = ArimaTooShortError
       /\ forecaster' = forecaster

C24_ShortTrainFailsAtFirstFit == [][C24_Move]_vars /\ []C24_State

C24_Witness ==
    /\ pc = "Failed"
    /\ error = ArimaTooShortError
    /\ test_weeks = 2
    /\ Len(df) = 21
    /\ train # None
    /\ Len(train.v) = 19

\* C23: in every state reached by fit_arima, fit_moving_average and predict
\* calls (failing fits included), is_fitted implies that model is a fully
\* fitted model of the kind named by model_type, fitted on train_data; a
\* predict(steps >= 1) on a fitted forecaster then returns a forecast.
C23_ModelOfType ==
    \/ /\ forecaster.model_type = "ARIMA"
       /\ forecaster.model.kind = "ARIMAResults"
       /\ forecaster.train_data = Some(forecaster.model.endog)
    \/ /\ forecaster.model_type = "MovingAverage"
       /\ forecaster.model.kind = "dict"
       /\ forecaster.train_data # None
       /\ forecaster.model.last_values =
             PdTail(forecaster.train_data.v, forecaster.model.window)

C23_FittedModelConsistent ==
    /\ forecaster.is_fitted => C23_ModelOfType
    /\ (call.op = "predict" /\ call.arg.v >= 1 /\ forecaster.is_fitted) =>
          /\ call.exc = NoError
          /\ Len(call.value.v) = call.arg.v

\* ---- _validate_and_clean: the arguments and the value of the call
C21_Input == RenamedFrame(call.arg.v.df)

C21_IsNumber(cell) ==
    \/ cell.t = "num"
    \/ cell.t = "str" /\ ToNumeric(cell).t = "num"

C21_Valid(row) ==
    /\ C21_IsNumber(row[ColYear])
    /\ C21_IsNumber(row[ColWeek])
    /\ C21_IsNumber(row[ColIliPercentage])
    /\ ToNumeric(row[ColIliPercentage]).v >= 0
    /\ ToNumeric(row[ColIliPercentage]).v <= 100
    /\ ToNumeric(row[ColWeek]).v >= 1
    /\ ToNumeric(row[ColWeek]).v <= 53

\* the rows of s at the positions of the set idx, in their order
RECURSIVE C21_Pick(_, _, _)
C21_Pick(s, idx, k) ==
    IF k > Len(s) THEN << >>
    ELSE (IF k \in idx THEN << s[k] >> ELSE << >>) \o C21_Pick(s, idx, k + 1)

\* C21: on a frame that has year, week and ili_percentage after renaming,
\* _validate_and_clean returns exactly the input rows, in their order, whose
\* three values are present and numeric with 0 <= ili_percentage <= 100 and
\* 1 <= week <= 53 (the three values as numbers), so every output row meets
\* these conditions; when one of the three columns is missing it fails with
\* the error 'Missing required column'.
C21_ValidateKeepsValidRows ==
    (call.op = "_validate_and_clean") =>
       IF {ColYear, ColWeek, ColIliPercentage} \subseteq C21_Input.columns
       THEN /\ call.exc = NoError
            /\ LET out  == call.value.v.rows
                   rows == C21_Input.rows
                   kept == {k \in 1..Len(rows) : C21_Valid(rows[k])}
                   want == C21_Pick(rows, kept, 1)
               IN  /\ Len(out) = Len(want)
                   /\ \A k \in 1..Len(out) :
                         /\ \A c \in DOMAIN want[k] :
                               out[k][c] = IF c \in {ColYear, ColWeek, ColIliPercentage}
                                           THEN ToNumeric(want[k][c]) ELSE want[k][c]
                         /\ out[k][ColYear].t = "num"
                         /\ out[k][ColWeek].t = "num"
                         /\ out[k][ColIliPercentage].t = "num"
                         /\ 0 <= out[k][ColIliPercentage].v
                         /\ out[k][ColIliPercentage].v <= 100
                         /\ 1 <= out[k][ColWeek].v
                         /\ out[k][ColWeek].v <= 53
       ELSE /\ call.exc.type = "ValueError"
            /\ call.exc.msg = "Missing required column"
            /\ call.value = None

C21_Witness ==
    /\ call.op = "_validate_and_clean"
    /\ call.exc = NoError
    /\ Len(call.arg.v.df.rows) = 2
    /\ Len(call.value.v.rows) = 1
    /\ call.value.v.rows[1][ColWeek] = Num(53)
    /\ call.arg.v.df.columns # call.value.v.columns

\* C22: fetch_national_ili with a valid year range raises ConnectionError
\* when the CDC API is unreachable, that is when every per-year request fails.
C22_UnreachableRaisesConnectionError ==
    (/\ call.op = "fetch_national_ili"
     /\ LET a    == call.arg.v
            last == IF a.end_year = None THEN a.now ELSE a.end_year.v
        IN  /\ a.start_year <= last
            /\ a.start_year >= 1997
            /\ \A y \in a.start_year..last : a.responses[y].kind = "raises")
    => /\ call.exc = ConnectionError
       /\ call.value = None

====
